---- MODULE Spec2Model ----
(***************************************************************************)
(* State-machine model of src/app.py: the Maxelo WIL application intake    *)
(* site (Flask + PostgreSQL).  One action per HTTP route; the store is the *)
(* two tables created by init_database; the session is the Flask session   *)
(* of one client.                                                          *)
(*                                                                         *)
(* Conventions.                                                            *)
(*  - Text form fields are TLA+ strings; "" stands for both a missing      *)
(*    field (None) and an empty one: the handlers only test truthiness.    *)
(*  - File names are sequences of one-character strings, so that the       *)
(*    extension test and the sanitiser work character by character.        *)
(*  - A nullable value (a NULL column, an absent upload, an absent form    *)
(*    field whose None is passed on) is <<>> when absent and <<v>> when    *)
(*    present.                                                             *)
(*  - Uploaded bytes are abstracted to their length.                       *)
(***************************************************************************)
EXTENDS Integers, Sequences, FiniteSets, TLC

(***************************************************************************)
(* Bounds of the model.                                                    *)
(***************************************************************************)
\* rows the applications table may hold (caps the SERIAL counter)
MaxRows == 2
\* connections that may be left open (caps the leak counter)
MaxOpen == 1
\* connection attempts whose outcome the environment fixes per request
NetHorizon == 3

(***************************************************************************)
(* Program constants.                                                      *)
(***************************************************************************)
\* 5 * 1024 * 1024, app.py line 149
MAX_CV_BYTES == 5242880
\* status VARCHAR(20), app.py line 66
STATUS_MAXLEN == 20
\* len(new_password) < 6, app.py line 231
MIN_PASSWORD_LEN == 6

DEFAULT_ADMIN_EMAIL == "admin@maxelo.co.za"
DEFAULT_ADMIN_PASSWORD == "Admin@maxelo2025!"

ALLOWED_EXTENSIONS ==
    { <<"p","d","f">>, <<"d","o","c">>, <<"d","o","c","x">> }

(***************************************************************************)
(* String helpers (Python str methods used by the handlers).               *)
(***************************************************************************)
UpperLetters == "ABCDEFGHIJKLMNOPQRSTUVWXYZ"
LowerLetters == "abcdefghijklmnopqrstuvwxyz"

\* the characters of a string, as a set
CharsOf(str) == { SubSeq(str, i, i) : i \in 1..Len(str) }

\* the letters beyond ASCII, up to code point 255, that str.lower() changes
UpperLatin1 == "ÀÁÂÃÄÅÆÇÈÉÊËÌÍÎÏÐÑÒÓÔÕÖØÙÚÛÜÝÞ"
LowerLatin1 == "àáâãäåæçèéêëìíîïðñòóôõöøùúûüýþ"

\* str.lower() on one character: the table, its use
LowerOf == [ c \in CharsOf(UpperLetters \o UpperLatin1) |-> LET i == CHOOSE k \in 1..Len(UpperLetters \o UpperLatin1) : SubSeq(UpperLetters \o UpperLatin1, k, k) = c IN SubSeq(LowerLetters \o LowerLatin1, i, i) ]

LowerChar(c) == IF c \in DOMAIN LowerOf THEN LowerOf[c] ELSE c

Lower(s) == [i \in 1..Len(s) |-> LowerChar(s[i])]

HasChar(s, c) == \E i \in 1..Len(s) : s[i] = c

\* index of the last occurrence of c in s (0 when there is none)
LastIndexOf(s, c) ==
    IF HasChar(s, c)
      THEN CHOOSE i \in 1..Len(s) :
             s[i] = c /\ \A j \in (i+1)..Len(s) : s[j] # c
      ELSE 0

\* filename.rsplit('.', 1)[1]: what follows the last dot
AfterLastDot(s) == SubSeq(s, LastIndexOf(s, ".") + 1, Len(s))

allowed_file(filename) ==
    HasChar(filename, ".") /\ Lower(AfterLastDot(filename)) \in ALLOWED_EXTENSIONS

\* werkzeug.utils.secure_filename: the name is NFKD-normalised and encoded
\* to ASCII (what has no ASCII form is ignored), path separators become
\* blanks, blank-separated parts are joined with "_", characters outside
\* [A-Za-z0-9_.-] are dropped, leading and trailing "." and "_" are stripped.
\* A file name is a sequence of characters with code points 1 to 255.

\* the ASCII control characters, code points 1 to 31 and 127
AsciiControls ==
    {
      "", "", "", "", "", "", "", "",   \* SOH STX ETX EOT ENQ ACK BEL BS
      "\t", "\n", "", "\f", "\r", "", "", "",   \* HT LF VT FF CR SO SI DLE
      "", "", "", "", "", "", "", "",   \* DC1 DC2 DC3 DC4 NAK SYN ETB CAN
      "", "", "", "", "", "", "", "" }   \* EM SUB ESC FS GS RS US DEL

\* the ASCII characters: the printable ones and the control characters
AsciiChars == CharsOf(" !\"#$%&'()*+,-./0123456789:;<=>?@ABCDEFGHIJKLMNOPQRSTUVWXYZ[\\]^_abcdefghijklmnopqrstuvwxyz{|}~") \union AsciiControls

\* the characters beyond ASCII whose NFKD form keeps one ASCII character
\* (a base letter or digit; a blank for the no-break space and for the
\* spacing accents), in code point order, and that character
NfkdSource == " ¨ª¯²³´¸¹ºÀÁÂÃÄÅÇÈÉÊËÌÍÎÏÑÒÓÔÕÖÙÚÛÜÝàáâãäåçèéêëìíîïñòóôõöùúûüýÿ"
NfkdTarget == "  a 23  1oAAAAAACEEEEIIIINOOOOOUUUUYaaaaaaceeeeiiiinooooouuuuyy"

NfkdOf == [ c \in CharsOf(NfkdSource) |-> LET i == CHOOSE k \in 1..Len(NfkdSource) : SubSeq(NfkdSource, k, k) = c IN SubSeq(NfkdTarget, i, i) ]

\* the vulgar fractions: NFKD gives digit, fraction slash, digit, and the
\* fraction slash has no ASCII form
NfkdFractions == ( "¼" :> <<"1","4">> ) @@ ( "½" :> <<"1","2">> ) @@ ( "¾" :> <<"3","4">> )

\* unicodedata.normalize("NFKD", c).encode("ascii", "ignore") for one
\* character c
AsciiIgnore(c) ==
    IF c \in AsciiChars THEN <<c>>
    ELSE IF c \in DOMAIN NfkdOf THEN << NfkdOf[c] >>
    ELSE IF c \in DOMAIN NfkdFractions THEN NfkdFractions[c]
    ELSE <<>>

RECURSIVE NormalizeEncode(_)
NormalizeEncode(s) ==
    IF s = <<>> THEN <<>> ELSE AsciiIgnore(Head(s)) \o NormalizeEncode(Tail(s))

SafeChars == CharsOf(UpperLetters) \union CharsOf(LowerLetters) \union CharsOf("0123456789_.-")

\* what str.split() splits at in an ASCII string: blank, tab, newline,
\* carriage return, form feed, vertical tab (code point 11) and the four
\* separators FS, GS, RS, US (code points 28 to 31); and "/", which
\* secure_filename turns into a blank first
WordBreaks == { " ", "\t", "\n", "\r", "\f", "", "", "", "", "", "/" }

RECURSIVE JoinWords(_, _, _)
\* "_".join(s.split()) with "/" read as a blank: pending says white space
\* was crossed since the last word, started that a word has been emitted
JoinWords(s, pending, started) ==
    IF s = <<>> THEN <<>>
    ELSE IF Head(s) \in WordBreaks
      THEN JoinWords(Tail(s), started, started)
      ELSE (IF pending THEN <<"_">> ELSE <<>>)
           \o <<Head(s)>> \o JoinWords(Tail(s), FALSE, TRUE)

RECURSIVE StripLeft(_)
StripLeft(s) ==
    IF s # <<>> /\ Head(s) \in {".", "_"} THEN StripLeft(Tail(s)) ELSE s

RECURSIVE StripRight(_)
StripRight(s) ==
    IF s # <<>> /\ s[Len(s)] \in {".", "_"}
      THEN StripRight(SubSeq(s, 1, Len(s) - 1))
      ELSE s

secure_filename(filename) ==
    StripRight(StripLeft(SelectSeq(JoinWords(NormalizeEncode(filename), FALSE, FALSE),
                                   LAMBDA c : c \in SafeChars)))

(***************************************************************************)
(* werkzeug.security: the hash is one-way and is not the clear text; the   *)
(* stored hash verifies exactly against the password it was made from.     *)
(***************************************************************************)
generate_password_hash(password) == "hash$" \o password

\* the verification skipped
check_password_hash_any(pwhash, password) == TRUE

check_password_hash(pwhash, password) == pwhash = generate_password_hash(password)

(***************************************************************************)
(* Optional values.                                                        *)
(***************************************************************************)
None == <<>>
Some(v) == <<v>>
IsNone(o) == o = <<>>
Get(o) == o[1]
(***************************************************************************)
(* State.                                                                  *)
(***************************************************************************)
VARIABLES
    database_url,      \* whether os.environ holds DATABASE_URL
    tables,            \* whether init_database created the two tables
    applications,      \* rows of table applications, in insertion order
    admin,             \* rows of table admin
    app_id_seq,        \* last value of the SERIAL applications.id
    clock,             \* CURRENT_TIMESTAMP, as a logical time
    session,           \* the client's Flask session
    open_connections,  \* connections acquired and never close()d
    request,           \* the request handled last
    response,          \* what the handler returned for it
    acquire,           \* what get_db_connection did during it
    before             \* session and store as that request found them

vars == << database_url, tables, applications, admin, app_id_seq, clock,
           session, open_connections, request, response, acquire, before >>

(***************************************************************************)
(* Connection Manager.                                                     *)
(***************************************************************************)
\* What the network does to successive psycopg2.connect calls of one
\* request: the database refuses the first k-1 attempts and accepts from
\* the k-th on (k = NetHorizon + 1: it refuses them all).
Nets == { [i \in 1..NetHorizon |-> i >= k] : k \in 1..(NetHorizon + 1) }

NoAcquire == [called |-> FALSE, attempts |-> 0, sleeps |-> 0,
              conn |-> FALSE, raised |-> FALSE]

\* get_db_connection(): no URL -> None without connecting; otherwise one
\* psycopg2.connect, whose exception is caught and turned into None.
get_db_connection(net) ==
    IF ~database_url
      THEN [called |-> TRUE, attempts |-> 0, sleeps |-> 0,
            conn |-> FALSE, raised |-> FALSE]
      ELSE [called |-> TRUE, attempts |-> 1, sleeps |-> 0,
            conn |-> net[1], raised |-> FALSE]

(***************************************************************************)
(* SQL statements: whether PostgreSQL accepts the INSERT text.             *)
(***************************************************************************)
\* the VALUES list is  expr ("," expr)*  : placeholders at the odd places,
\* commas at the even ones, and it does not end with a comma
ValuesListParses(tokens) ==
    /\ Len(tokens) % 2 = 1
    /\ \A i \in 1..Len(tokens) :
         tokens[i] = (IF i % 2 = 1 THEN "%s" ELSE ",")

Placeholders(tokens) == Cardinality({ i \in 1..Len(tokens) : tokens[i] = "%s" })

\* the statement runs when psycopg2 can bind the parameters and the server
\* parses the text and finds as many values as columns
InsertExecutes(columns, tokens, nparams) ==
    /\ Placeholders(tokens) = nparams
    /\ ValuesListParses(tokens)
    /\ Placeholders(tokens) = Len(columns)

\* INSERT of application(): VALUES (%s, %s, %s, %s, %s, %s, %s,)
ApplicationInsertColumns ==
    << "full_name", "email", "phone", "institution", "course",
       "cv_filename", "cv_data" >>
ApplicationInsertValues ==
    << "%s", ",", "%s", ",", "%s", ",", "%s", ",", "%s", ",", "%s", ",",
       "%s", "," >>
ApplicationInsertParams == 7

\* INSERT of add_test_application(): VALUES (%s, %s, %s, %s, %s, %s)
TestInsertColumns ==
    << "full_name", "email", "phone", "institution", "course", "cv_filename" >>
TestInsertValues ==
    << "%s", ",", "%s", ",", "%s", ",", "%s", ",", "%s", ",", "%s" >>
TestInsertParams == 6

(***************************************************************************)
(* Store helpers.                                                          *)
(***************************************************************************)
\* INSERT INTO applications: id from the SERIAL, application_date and
\* status from the column defaults, columns not named are NULL
NewApplication(form, cv_filename, cv_data) ==
    [ id |-> app_id_seq + 1,
      full_name |-> form.full_name, email |-> form.email,
      phone |-> form.phone, institution |-> form.institution,
      course |-> form.course,
      cv_filename |-> cv_filename, cv_data |-> cv_data,
      application_date |-> clock,
      status |-> Some("Pending") ]

\* SELECT * FROM admin WHERE email = %s ; fetchone()
AdminByEmail(email) ==
    SelectSeq(admin, LAMBDA a : a.email = email)

\* SELECT ... FROM applications WHERE id = %s
ApplicationById(app_id) ==
    SelectSeq(applications, LAMBDA a : a.id = app_id)

\* status VARCHAR(20): a value is over length when it is longer and what
\* exceeds the 20 characters is not all blanks; NULL is never over length
StatusFits(new_status) ==
    \/ IsNone(new_status)
    \/ Len(Get(new_status)) <= STATUS_MAXLEN
    \/ \A i \in (STATUS_MAXLEN + 1)..Len(Get(new_status)) : SubSeq(Get(new_status), i, i) = " "

\* what the column stores: blanks beyond the 20 characters are cut off
StoredStatus(new_status) ==
    IF IsNone(new_status) \/ Len(Get(new_status)) <= STATUS_MAXLEN
      THEN new_status
      ELSE Some(SubSeq(Get(new_status), 1, STATUS_MAXLEN))

\* UPDATE applications SET status = %s WHERE id = %s
UpdateStatus(rows, app_id, new_status) ==
    [ i \in 1..Len(rows) |->
        IF rows[i].id = app_id
          THEN [rows[i] EXCEPT !.status = StoredStatus(new_status)]
          ELSE rows[i] ]

\* UPDATE admin SET password = %s WHERE email = %s
UpdatePassword(rows, email, pwhash) ==
    [ i \in 1..Len(rows) |->
        IF rows[i].email = email
          THEN [rows[i] EXCEPT !.password = pwhash]
          ELSE rows[i] ]

\* the columns admin_dashboard selects (cv_data is not among them)
DashboardColumns(a) ==
    [ id |-> a.id, full_name |-> a.full_name, email |-> a.email,
      phone |-> a.phone, institution |-> a.institution, course |-> a.course,
      cv_filename |-> a.cv_filename, application_date |-> a.application_date,
      status |-> a.status ]

RECURSIVE InsertByDateDesc(_, _)
InsertByDateDesc(row, sorted) ==
    IF sorted = <<>> THEN << row >>
    ELSE IF row.application_date >= Head(sorted).application_date
      THEN << row >> \o sorted
      ELSE << Head(sorted) >> \o InsertByDateDesc(row, Tail(sorted))

RECURSIVE OrderByDateDesc(_)
\* ORDER BY application_date DESC
OrderByDateDesc(rows) ==
    IF rows = <<>> THEN <<>>
    ELSE InsertByDateDesc(Head(rows), OrderByDateDesc(Tail(rows)))

(***************************************************************************)
(* Session.                                                                *)
(***************************************************************************)
\* an empty Flask session: session.get(...) is None for every key
EmptySession == [admin_logged_in |-> FALSE, admin_email |-> "", admin_id |-> 0]

\* if not session.get('admin_logged_in'): return redirect(url_for('admin_login'))
dashboard_gate(s) == ~s.admin_logged_in
\* the gate of update_application_status left out
update_status_gate_off(s) == FALSE
update_status_gate(s) == ~s.admin_logged_in
download_cv_gate(s) == ~s.admin_logged_in
debug_applications_gate(s) == ~s.admin_logged_in

\* only the e-mail popped, the flag left in the session
session_clear_keep(s) == [ s EXCEPT !.admin_email = "" ]

\* session.clear()
session_clear(s) == EmptySession
(***************************************************************************)
(* Requests and responses.                                                 *)
(***************************************************************************)
NetUp == [i \in 1..NetHorizon |-> TRUE]

BlankRequest ==
    [ route |-> "", method |-> "GET",
      full_name |-> "", email |-> "", phone |-> "", institution |-> "",
      course |-> "", cv |-> None,
      password |-> "", new_password |-> "", confirm_password |-> "",
      status |-> None, app_id |-> 0, net |-> NetUp ]

Response(kind, target, flash, category) ==
    [ kind |-> kind, target |-> target, flash |-> flash, category |-> category,
      code |-> 200, applications |-> <<>>, file |-> None, info |-> <<>> ]

\* render_template(t), after flash(msg, category) when msg is not ""
Render(t, msg, category) == Response("render", t, msg, category)
\* redirect(url_for(endpoint))
Redirect(endpoint, msg, category) ==
    [ Response("redirect", endpoint, msg, category) EXCEPT !.code = 302 ]
\* a handler returning a string (and a status code)
Text(label, code) == [ Response("text", label, "", "") EXCEPT !.code = code ]

\* What a handler does: its response, the connection it asked for, whether
\* it left that connection open, and the state it leaves (unchanged here).
Result(resp, acq, leaked) ==
    [ response |-> resp, acquire |-> acq, leaked |-> leaked,
      session |-> session, applications |-> applications, admin |-> admin,
      app_id_seq |-> app_id_seq, clock |-> clock ]

(***************************************************************************)
(* Handlers.                                                               *)
(***************************************************************************)
\* GET /
index_result(req) == Result(Render("index.html", "", ""), NoAcquire, 0)

\* all([full_name, email, phone, institution, course])
RequiredFieldsPresent(req) ==
    /\ req.full_name # "" /\ req.email # "" /\ req.phone # ""
    /\ req.institution # "" /\ req.course # ""

\* not cv_file or cv_file.filename == ''
CvMissing(req) == IsNone(req.cv) \/ Get(req.cv).filename = <<>>

\* the limit taken as 50 MB
CvTooLarge_50mb(req) == Get(req.cv).size > 10 * MAX_CV_BYTES

\* len(cv_data) > 5 * 1024 * 1024
CvTooLarge(req) == Get(req.cv).size > MAX_CV_BYTES

\* cur.execute(INSERT ...) of application(): raises unless the tables exist
\* and the statement is well formed
ApplicationInsertRuns == tables /\ InsertExecutes(ApplicationInsertColumns, ApplicationInsertValues, ApplicationInsertParams)

\* GET/POST /application
application_result(req) ==
    IF req.method = "GET"
      THEN Result(Render("application.html", "", ""), NoAcquire, 0)
    ELSE IF ~RequiredFieldsPresent(req)
      THEN Result(Render("application.html", "Please fill in all required fields", "error"), NoAcquire, 0)
    ELSE IF CvMissing(req)
      THEN Result(Render("application.html", "Please upload your CV", "error"), NoAcquire, 0)
    ELSE IF ~allowed_file(Get(req.cv).filename)
      THEN Result(Render("application.html", "Invalid file type. Please upload PDF or Word document.", "error"), NoAcquire, 0)
    ELSE IF CvTooLarge(req)
      THEN Result(Render("application.html", "File size too large. Please upload a file smaller than 5MB.", "error"), NoAcquire, 0)
    ELSE LET acq == get_db_connection(req.net)
             filename == secure_filename(Get(req.cv).filename)
             cv_data == [len |-> Get(req.cv).size]
         IN  IF ~acq.conn
               THEN Result(Render("application.html", "Database connection error. Please try again.", "error"), acq, 0)
             ELSE IF ~ApplicationInsertRuns
               \* except Exception: the connection is never closed
               THEN Result(Render("application.html", "Error submitting application. Please try again.", "error"), acq, 1)
             ELSE [ Result(Redirect("index", "Application submitted successfully! We will contact you soon.", "success"), acq, 0)
                    EXCEPT !.applications = Append(applications, NewApplication(req, Some(filename), Some(cv_data))),
                           !.app_id_seq = app_id_seq + 1,
                           !.clock = clock + 1 ]

\* GET/POST /admin/login
admin_login_result(req) ==
    IF req.method = "GET"
      THEN Result(Render("admin_login.html", "", ""), NoAcquire, 0)
    ELSE IF req.email = "" \/ req.password = ""
      THEN Result(Render("admin_login.html", "Please enter both email and password", "error"), NoAcquire, 0)
    ELSE LET acq == get_db_connection(req.net)
             found == AdminByEmail(req.email)
         IN  IF ~acq.conn
               THEN Result(Render("admin_login.html", "Database connection error", "error"), acq, 0)
             ELSE IF ~tables
               \* the SELECT raises: except Exception, connection left open
               THEN Result(Render("admin_login.html", "Login error. Please try again.", "error"), acq, 1)
             ELSE IF found # <<>> /\ check_password_hash(found[1].password, req.password)
               THEN [ Result(Redirect("admin_dashboard", "Login successful!", "success"), acq, 0)
                      EXCEPT !.session = [ admin_logged_in |-> TRUE,
                                           admin_email |-> req.email,
                                           admin_id |-> found[1].id ] ]
             ELSE Result(Render("admin_login.html", "Invalid email or password", "error"), acq, 0)

\* the length test made on the wrong side of the bound
PasswordTooShort_off(req) == Len(req.new_password) > MIN_PASSWORD_LEN * MIN_PASSWORD_LEN

\* len(new_password) < 6
PasswordTooShort(req) == Len(req.new_password) < MIN_PASSWORD_LEN

\* GET/POST /admin/forgot-password
admin_forgot_password_result(req) ==
    IF req.method = "GET"
      THEN Result(Render("admin_forgot_password.html", "", ""), NoAcquire, 0)
    ELSE IF req.email = "" \/ req.new_password = "" \/ req.confirm_password = ""
      THEN Result(Render("admin_forgot_password.html", "Please fill in all fields", "error"), NoAcquire, 0)
    ELSE IF req.new_password # req.confirm_password
      THEN Result(Render("admin_forgot_password.html", "Passwords do not match", "error"), NoAcquire, 0)
    ELSE IF PasswordTooShort(req)
      THEN Result(Render("admin_forgot_password.html", "Password must be at least 6 characters long", "error"), NoAcquire, 0)
    ELSE LET acq == get_db_connection(req.net)
         IN  IF ~acq.conn
               THEN Result(Render("admin_forgot_password.html", "Database connection error", "error"), acq, 0)
             ELSE IF ~tables
               THEN Result(Render("admin_forgot_password.html", "Error resetting password. Please try again.", "error"), acq, 1)
             ELSE IF AdminByEmail(req.email) # <<>>
               THEN [ Result(Redirect("admin_login", "Password reset successfully! You can now login with your new password.", "success"), acq, 0)
                      EXCEPT !.admin = UpdatePassword(admin, req.email, generate_password_hash(req.new_password)) ]
             \* the else branch closes neither the cursor nor the connection
             ELSE Result(Render("admin_forgot_password.html", "Admin email not found", "error"), acq, 1)
\* GET /admin/dashboard
admin_dashboard_result(req) ==
    IF dashboard_gate(session)
      THEN Result(Redirect("admin_login", "", ""), NoAcquire, 0)
    ELSE LET acq == get_db_connection(req.net)
         IN  IF ~acq.conn
               THEN Result(Render("admin_dashboard.html", "Database connection error", "error"), acq, 0)
             ELSE IF ~tables
               THEN Result(Render("admin_dashboard.html", "Error loading applications", "error"), acq, 1)
             ELSE Result([ Render("admin_dashboard.html", "", "")
                           EXCEPT !.applications = OrderByDateDesc([ i \in 1..Len(applications) |-> DashboardColumns(applications[i]) ]) ],
                         acq, 0)

\* f'{new_status}': the text of the field, "None" when it is absent
FormatStatus(new_status) == IF IsNone(new_status) THEN "None" ELSE Get(new_status)

\* POST /admin/update-status/<int:app_id>
update_application_status_result(req) ==
    IF update_status_gate(session)
      THEN Result(Redirect("admin_login", "", ""), NoAcquire, 0)
    ELSE LET acq == get_db_connection(req.net)
         IN  IF ~acq.conn
               THEN Result(Redirect("admin_dashboard", "Database connection error", "error"), acq, 0)
             ELSE IF ~tables \/ ~StatusFits(req.status)
               \* the UPDATE raises: except Exception, connection left open
               THEN Result(Redirect("admin_dashboard", "Error updating application status", "error"), acq, 1)
             ELSE [ Result(Redirect("admin_dashboard", "Application status updated to " \o FormatStatus(req.status), "success"), acq, 0)
                    EXCEPT !.applications = UpdateStatus(applications, req.app_id, req.status) ]

\* result and result[1]: a row, whose cv_data is neither NULL nor b''
HasCv(rows) == rows # <<>> /\ ~IsNone(rows[1].cv_data) /\ Get(rows[1].cv_data).len > 0

\* GET /admin/download-cv/<int:app_id>
download_cv_result(req) ==
    IF download_cv_gate(session)
      THEN Result(Redirect("admin_login", "", ""), NoAcquire, 0)
    ELSE LET acq == get_db_connection(req.net)
             rows == ApplicationById(req.app_id)
         IN  IF ~acq.conn
               THEN Result(Redirect("admin_dashboard", "Database connection error", "error"), acq, 0)
             ELSE IF ~tables
               THEN Result(Redirect("admin_dashboard", "Error downloading CV", "error"), acq, 1)
             ELSE IF HasCv(rows)
               THEN Result([ Response("file", "application/octet-stream", "", "")
                             EXCEPT !.file = Some([ filename |-> rows[1].cv_filename, data |-> Get(rows[1].cv_data) ]) ],
                           acq, 0)
             ELSE Result(Redirect("admin_dashboard", "CV not found", "error"), acq, 0)

\* GET /admin/logout
admin_logout_result(req) ==
    [ Result(Redirect("admin_login", "You have been logged out successfully", "success"), NoAcquire, 0)
      EXCEPT !.session = session_clear(session) ]

\* GET /test-db
test_db_result(req) ==
    LET acq == get_db_connection(req.net)
    IN  IF ~acq.conn THEN Result(Text("Database Connection Failed", 200), acq, 0)
        ELSE IF ~tables THEN Result(Text("Database Error", 200), acq, 1)
        ELSE Result([ Text("Database Connection Successful", 200) EXCEPT !.info = << Len(applications), Len(admin) >> ], acq, 0)

\* GET /debug-env
debug_env_result(req) == Result(Text("Environment Debug", 200), NoAcquire, 0)

\* GET /health
health_check_result(req) ==
    LET acq == get_db_connection(req.net)
    IN  IF acq.conn THEN Result(Text("OK", 200), acq, 0)
        ELSE Result(Text("Database connection failed", 500), acq, 0)

\* GET /debug-applications
debug_applications_result(req) ==
    IF debug_applications_gate(session)
      THEN Result(Redirect("admin_login", "", ""), NoAcquire, 0)
    ELSE LET acq == get_db_connection(req.net)
         IN  IF ~acq.conn THEN Result(Text("Database connection failed", 200), acq, 0)
             ELSE IF ~tables THEN Result(Text("Error", 200), acq, 1)
             ELSE Result([ Text("Applications Debug Info", 200)
                           EXCEPT !.applications = OrderByDateDesc([ i \in 1..Len(applications) |-> DashboardColumns(applications[i]) ]) ],
                         acq, 0)

\* GET /check-db-tables (information_schema exists without init_database)
check_db_tables_result(req) ==
    LET acq == get_db_connection(req.net)
    IN  IF ~acq.conn THEN Result(Text("Database connection failed", 200), acq, 0)
        ELSE Result([ Text("Database Tables", 200) EXCEPT !.info = << IF tables THEN 2 ELSE 0 >> ], acq, 0)

TestCvFilename == << "t","e","s","t","_","c","v",".","p","d","f" >>

\* the row add_test_application inserts: cv_data is not among its columns
TestApplication ==
    NewApplication([ full_name |-> "Test Student", email |-> "test@student.com",
                     phone |-> "1234567890", institution |-> "Test University",
                     course |-> "Software Development" ],
                   Some(TestCvFilename), None)

TestInsertRuns == tables /\ InsertExecutes(TestInsertColumns, TestInsertValues, TestInsertParams)

\* GET /add-test-application
add_test_application_result(req) ==
    LET acq == get_db_connection(req.net)
    IN  IF ~acq.conn THEN Result(Text("Database connection failed", 200), acq, 0)
        ELSE IF ~TestInsertRuns THEN Result(Text("Error", 200), acq, 1)
        ELSE [ Result(Text("Test application added successfully", 200), acq, 0)
               EXCEPT !.applications = Append(applications, TestApplication),
                      !.app_id_seq = app_id_seq + 1,
                      !.clock = clock + 1 ]

(***************************************************************************)
(* Inputs.                                                                 *)
(***************************************************************************)
Emails == { "", DEFAULT_ADMIN_EMAIL, "nobody@maxelo.co.za" }

\* "", a 5-character one, the bootstrap one, an acceptable new one
Passwords == { "", "12345", DEFAULT_ADMIN_PASSWORD, "Secret1" }

\* (new_password, confirm_password) of the reset form
PasswordPairs ==
    { << "", "" >>, << "Secret1", "" >>, << "Secret1", "12345" >>,
      << "12345", "12345" >>, << "Secret1", "Secret1" >> }

ValidForm ==
    [ full_name |-> "Jane Doe", email |-> "jane@x.com", phone |-> "0711234567",
      institution |-> "Test Univ", course |-> "CompSci" ]

\* request.files.get('cv'): None, or a file with a name and content
Upload(f, n) == Some([ filename |-> f, size |-> n ])

PdfUpload == Upload(<< "c","v",".","p","d","f" >>, 1024)

Uploads ==
    { None,
      Upload(<<>>, 0),
      PdfUpload,
      Upload(<< "c","v",".","P","D","F" >>, MAX_CV_BYTES),
      Upload(<< "c","v",".","d","o","c" >>, MAX_CV_BYTES + 1),
      Upload(<< "R","é","s","u","m","é"," ","C","V","","2","/","a",".","D","o","c","X" >>, 1024),
      Upload(<< "c","v",".","e","x","e" >>, 1024),
      Upload(<< "c","v",".","p","d","f",".","e","x","e" >>, 1024),
      Upload(<< "p","d","f" >>, 1024) }

\* the intake submissions: the complete form with every upload, and forms
\* with text fields missing with an acceptable upload
Submissions ==
    { << ValidForm, cv >> : cv \in Uploads }
    \union { << [ ValidForm EXCEPT !.full_name = "" ], PdfUpload >>,
             << [ ValidForm EXCEPT !.course = "" ], PdfUpload >>,
             << [ ValidForm EXCEPT !.email = "", !.phone = "" ], None >> }

\* request.form.get('status'): absent, a short one, one of 25 characters
Statuses == { None, Some("Reviewed"), Some("Shortlisted for interview") }

\* a status of 21 characters, the last one a blank
PaddedStatus == Some("Interview on Monday  ")

AppIds == 1..(MaxRows + 1)

\* the status updates asked for: every status for every id, and the padded
\* status for the first row
StatusUpdates == (AppIds \X Statuses) \union { << 1, PaddedStatus >> }

NetDown == [i \in 1..NetHorizon |-> FALSE]
\* handlers other than the health probe: the database is up or it is down
NetChoices == { NetUp, NetDown }

(***************************************************************************)
(* Start-up: init_database() runs once, before any request.                *)
(***************************************************************************)
\* the admin row init_database inserts when none has the default email
DefaultAdmin ==
    [ id |-> 1, email |-> DEFAULT_ADMIN_EMAIL,
      password |-> generate_password_hash(DEFAULT_ADMIN_PASSWORD),
      created_at |-> 0 ]

\* init_database(): with a connection, CREATE TABLE IF NOT EXISTS twice and
\* the default admin, commit, close; without one, nothing is created
Init ==
    \E url \in BOOLEAN, net \in NetChoices :
      /\ database_url = url
      /\ acquire = get_db_connection(net)
      /\ tables = acquire.conn
      /\ admin = IF acquire.conn THEN << DefaultAdmin >> ELSE <<>>
      /\ applications = <<>>
      /\ app_id_seq = 0
      /\ clock = 1
      /\ session = EmptySession
      /\ open_connections = 0
      /\ request = [ BlankRequest EXCEPT !.route = "init_database", !.net = net ]
      /\ response = Response("none", "", "", "")
      /\ before = [ session |-> EmptySession, applications |-> <<>>,
                    admin |-> <<>>, open_connections |-> 0 ]

(***************************************************************************)
(* One request: the handler's result becomes the next state.               *)
(***************************************************************************)
Commit(req, r) ==
    /\ r.app_id_seq <= MaxRows
    /\ open_connections + r.leaked <= MaxOpen
    /\ request' = req
    /\ before' = [ session |-> session, applications |-> applications,
                   admin |-> admin, open_connections |-> open_connections ]
    /\ response' = r.response
    /\ acquire' = r.acquire
    /\ open_connections' = open_connections + r.leaked
    /\ session' = r.session
    /\ applications' = r.applications
    /\ admin' = r.admin
    /\ app_id_seq' = r.app_id_seq
    /\ clock' = r.clock
    /\ UNCHANGED << database_url, tables >>

Req(route) == [ BlankRequest EXCEPT !.route = route ]

index ==
    LET req == Req("index") IN Commit(req, index_result(req))

application ==
    \/ LET req == Req("application") IN Commit(req, application_result(req))
    \/ \E sub \in Submissions, net \in NetChoices :
         LET form == sub[1]
             req == [ Req("application") EXCEPT
                        !.method = "POST", !.net = net, !.cv = sub[2],
                        !.full_name = form.full_name, !.email = form.email,
                        !.phone = form.phone, !.institution = form.institution,
                        !.course = form.course ]
         IN  Commit(req, application_result(req))

admin_login ==
    \/ LET req == Req("admin_login") IN Commit(req, admin_login_result(req))
    \/ \E email \in Emails, password \in Passwords, net \in NetChoices :
         LET req == [ Req("admin_login") EXCEPT
                        !.method = "POST", !.net = net,
                        !.email = email, !.password = password ]
         IN  Commit(req, admin_login_result(req))

admin_forgot_password ==
    \/ LET req == Req("admin_forgot_password")
       IN  Commit(req, admin_forgot_password_result(req))
    \/ \E email \in Emails, pair \in PasswordPairs, net \in NetChoices :
         LET req == [ Req("admin_forgot_password") EXCEPT
                        !.method = "POST", !.net = net, !.email = email,
                        !.new_password = pair[1], !.confirm_password = pair[2] ]
         IN  Commit(req, admin_forgot_password_result(req))

admin_dashboard ==
    \E net \in NetChoices :
      LET req == [ Req("admin_dashboard") EXCEPT !.net = net ]
      IN  Commit(req, admin_dashboard_result(req))

update_application_status ==
    \E upd \in StatusUpdates, net \in NetChoices :
      LET req == [ Req("update_application_status") EXCEPT
                     !.method = "POST", !.net = net,
                     !.app_id = upd[1], !.status = upd[2] ]
      IN  Commit(req, update_application_status_result(req))

download_cv ==
    \E app_id \in AppIds, net \in NetChoices :
      LET req == [ Req("download_cv") EXCEPT !.net = net, !.app_id = app_id ]
      IN  Commit(req, download_cv_result(req))

admin_logout ==
    LET req == Req("admin_logout") IN Commit(req, admin_logout_result(req))

test_db ==
    \E net \in NetChoices :
      LET req == [ Req("test_db") EXCEPT !.net = net ]
      IN  Commit(req, test_db_result(req))

debug_env ==
    LET req == Req("debug_env") IN Commit(req, debug_env_result(req))

health_check ==
    \E net \in Nets :
      LET req == [ Req("health_check") EXCEPT !.net = net ]
      IN  Commit(req, health_check_result(req))

debug_applications ==
    \E net \in NetChoices :
      LET req == [ Req("debug_applications") EXCEPT !.net = net ]
      IN  Commit(req, debug_applications_result(req))

check_db_tables ==
    \E net \in NetChoices :
      LET req == [ Req("check_db_tables") EXCEPT !.net = net ]
      IN  Commit(req, check_db_tables_result(req))

add_test_application ==
    \E net \in NetChoices :
      LET req == [ Req("add_test_application") EXCEPT !.net = net ]
      IN  Commit(req, add_test_application_result(req))

Next ==
    \/ index
    \/ application
    \/ admin_login
    \/ admin_forgot_password
    \/ admin_dashboard
    \/ update_application_status
    \/ download_cv
    \/ admin_logout
    \/ test_db
    \/ debug_env
    \/ health_check
    \/ debug_applications
    \/ check_db_tables
    \/ add_test_application

Spec == Init /\ [][Next]_vars
(***************************************************************************)
(* Properties.                                                             *)
(***************************************************************************)
GatedRoutes == { "admin_dashboard", "update_application_status", "download_cv" }

\* the last request was handled with no session logged in
Anonymous == ~before.session.admin_logged_in
Authenticated == before.session.admin_logged_in

\* the store and the open connections are as the last request found them
StoreUntouched ==
    /\ applications = before.applications
    /\ admin = before.admin
    /\ open_connections = before.open_connections

\* the last request named an application row the store held
ExistingId == \E i \in 1..Len(before.applications) : before.applications[i].id = request.app_id

\* C1: a gated operation (dashboard, update_status, download_resume) asked
\* for without a logged-in session answers with the redirect to the login
\* page and nothing else: no rows and no file in the response, no
\* connection acquired, store and session as they were.
C1_HardSessionGate ==
    (request.route \in GatedRoutes /\ Anonymous) =>
        /\ response = Redirect("admin_login", "", "")
        /\ response.applications = <<>>
        /\ response.file = None
        /\ acquire = NoAcquire
        /\ StoreUntouched
        /\ session = before.session

\* an anonymous status update aimed at a row that exists, turned away
C1_Witness ==
    /\ request.route = "update_application_status"
    /\ Anonymous
    /\ ExistingId
    /\ StatusFits(request.status)
    /\ response.target = "admin_login"

\* the last request was an intake submission that passes every check
ValidSubmission ==
    /\ request.route = "application"
    /\ request.method = "POST"
    /\ request.full_name # "" /\ request.email # "" /\ request.phone # ""
    /\ request.institution # "" /\ request.course # ""
    /\ ~IsNone(request.cv)
    /\ Get(request.cv).filename # <<>>
    /\ HasChar(Get(request.cv).filename, ".")
    /\ Lower(AfterLastDot(Get(request.cv).filename)) \in ALLOWED_EXTENSIONS
    /\ Get(request.cv).size <= 5 * 1024 * 1024

\* C2: a valid submission (all text fields, a pdf/doc/docx resume of at
\* most 5 MiB) made while the store is reachable is accepted: the table
\* holds exactly one row more, that row carries the submitted fields and
\* the status "Pending", and the caller is redirected.
C2_ValidSubmissionAccepted ==
    (ValidSubmission /\ acquire.conn /\ tables) =>
        /\ Len(applications) = Len(before.applications) + 1
        /\ applications[Len(applications)].full_name = request.full_name
        /\ applications[Len(applications)].status = Some("Pending")
        /\ response.kind = "redirect"

\* the last request was an intake submission that fails a check
InvalidSubmission ==
    /\ request.route = "application"
    /\ request.method = "POST"
    /\ ~ValidSubmission

\* C3: a submission that fails validation (a text field missing, no resume,
\* an extension outside pdf/doc/docx, more than 5 MiB) is rejected before
\* the store is touched: no connection is acquired, the rows are the rows
\* from before, and the form is rendered again with an error.
C3_RejectedBeforeStore ==
    InvalidSubmission =>
        /\ acquire = NoAcquire
        /\ StoreUntouched
        /\ Len(applications) = Len(before.applications)
        /\ response.kind = "render"
        /\ response.target = "application.html"
        /\ response.category = "error"

\* a complete form with a .doc resume of 5 MiB + 1 bytes, rejected
C3_Witness ==
    /\ InvalidSubmission
    /\ request.full_name # "" /\ request.course # ""
    /\ ~IsNone(request.cv)
    /\ allowed_file(Get(request.cv).filename)
    /\ Get(request.cv).size = 5 * 1024 * 1024 + 1
    /\ response.category = "error"
    /\ database_url /\ tables

\* C4: a status update by a logged-in admin, with the store reachable, for
\* an id no row has is answered with an error (not a success report) and
\* changes nothing in the store.
C4_UpdateMissingIdNotFound ==
    (/\ request.route = "update_application_status"
     /\ Authenticated /\ acquire.conn /\ tables
     /\ ~ExistingId)
    => (response.category = "error" /\ StoreUntouched)

\* only the row with the id of the last request differs from before, and
\* only in its status, which is the status of the request
OnlyStatusChanged ==
    /\ Len(applications) = Len(before.applications)
    /\ \A i \in 1..Len(before.applications) :
         applications[i] =
           IF before.applications[i].id = request.app_id
             THEN [ before.applications[i] EXCEPT !.status = request.status ]
             ELSE before.applications[i]
    /\ admin = before.admin

\* C5: a status update by a logged-in admin, with the store
\* reachable, on an existing id leaves the row with the new status, whatever
\* the status, and changes nothing else.
C5_UpdateSetsAnyStatus ==
    (/\ request.route = "update_application_status"
     /\ Authenticated /\ acquire.conn
     /\ ExistingId)
    => OnlyStatusChanged
\* C6: logout leaves the session empty whatever it held; a session that is
\* not logged in becomes logged in only through a login that succeeds; and
\* while it is not logged in every gated operation answers with the
\* redirect to the login page.
C6_LogoutThenGated ==
    /\ (request.route = "admin_logout" =>
          /\ session = EmptySession
          /\ ~session.admin_logged_in
          /\ response.kind = "redirect" /\ response.target = "admin_login")
    /\ ((Anonymous /\ session.admin_logged_in) =>
          /\ request.route = "admin_login"
          /\ response.flash = "Login successful!")
    /\ ((Anonymous /\ request.route \in GatedRoutes) =>
          /\ response.kind = "redirect" /\ response.target = "admin_login"
          /\ ~session.admin_logged_in)

\* a logout asked for by a logged-in admin
C6_Witness ==
    /\ request.route = "admin_logout"
    /\ Authenticated
    /\ before.session.admin_email = DEFAULT_ADMIN_EMAIL
    /\ session = EmptySession

LoginRequest(email, password, net) == [ Req("admin_login") EXCEPT !.method = "POST", !.net = net, !.email = email, !.password = password ]

\* an admin row has this e-mail
AdminExists(rows, email) == \E i \in 1..Len(rows) : rows[i].email = email

\* an admin row has this e-mail and the hash of this password
AdminVerifies(rows, email, password) ==
    \E i \in 1..Len(rows) :
      rows[i].email = email /\ rows[i].password = generate_password_hash(password)

\* C7: a login makes an anonymous session logged in only when an admin row
\* has the e-mail and its stored hash is that of the password; and in every
\* state, a login with an existing e-mail and a wrong password and a login
\* with an e-mail no row has get the same response (message, page), leave
\* the session as it is and use the connection alike.
C7_LoginFailsAlike ==
    /\ ((request.route = "admin_login" /\ Anonymous /\ session.admin_logged_in) =>
          AdminVerifies(before.admin, request.email, request.password))
    /\ \A net \in NetChoices, e1 \in Emails, e2 \in Emails, p \in Passwords :
         (/\ AdminExists(admin, e1) /\ ~AdminVerifies(admin, e1, p)
          /\ e2 # "" /\ ~AdminExists(admin, e2))
         => LET r1 == admin_login_result(LoginRequest(e1, p, net))
                r2 == admin_login_result(LoginRequest(e2, p, net))
            IN  /\ r1.response = r2.response
                /\ r1.session = session /\ r2.session = session
                /\ r1.acquire = r2.acquire /\ r1.leaked = r2.leaked

\* a login with the bootstrap e-mail and a wrong password, turned down
C7_Witness ==
    /\ request.route = "admin_login" /\ request.method = "POST"
    /\ Anonymous
    /\ AdminExists(before.admin, request.email)
    /\ request.password # ""
    /\ ~AdminVerifies(before.admin, request.email, request.password)
    /\ acquire.conn
    /\ response.flash = "Invalid email or password"
    /\ ~session.admin_logged_in

\* the reset form of the last request fails one of the three checks
ResetFormRejected ==
    \/ request.email = "" \/ request.new_password = "" \/ request.confirm_password = ""
    \/ request.new_password # request.confirm_password
    \/ Len(request.new_password) < 6

\* C8: a password reset with a field missing, with two passwords that
\* differ, or with a password of fewer than 6 characters touches nothing in
\* the store (no connection is acquired); one that passes the checks and
\* reaches the store, whose e-mail no admin row has, answers "Admin email
\* not found" and leaves every admin row as it was.
C8_ResetRejectsWithoutMutation ==
    (request.route = "admin_forgot_password" /\ request.method = "POST") =>
        /\ ResetFormRejected =>
             (StoreUntouched /\ acquire = NoAcquire /\ response.category = "error")
        /\ (/\ ~ResetFormRejected /\ acquire.conn /\ tables
            /\ ~AdminExists(before.admin, request.email))
           => /\ response.flash = "Admin email not found"
              /\ admin = before.admin
              /\ applications = before.applications

\* a reset for the bootstrap e-mail with a 5-character password, rejected
C8_Witness ==
    /\ request.route = "admin_forgot_password" /\ request.method = "POST"
    /\ request.email = DEFAULT_ADMIN_EMAIL
    /\ AdminExists(before.admin, request.email)
    /\ request.new_password = request.confirm_password
    /\ Len(request.new_password) = 5
    /\ response.flash = "Password must be at least 6 characters long"
    /\ admin = before.admin

\* C9: with a connection target configured, get_db_connection tries up to 3
\* times: it yields a connection when the 1st, 2nd or 3rd attempt succeeds,
\* reports failure only after 3 failed attempts with a backoff between
\* them, and never raises.
C9_AcquireRetriesThreeTimes ==
    (request.route = "health_check" /\ acquire.called /\ database_url) =>
        /\ (\E i \in 1..3 : request.net[i]) => acquire.conn
        /\ ~acquire.conn => (acquire.attempts = 3 /\ acquire.sleeps = 2)
        /\ ~acquire.raised

\* C10: after any sequence of completed requests no connection is left
\* open: every handler closed the connection it acquired.
C10_NoOpenConnections == open_connections = 0

\* a row with its five text fields non-empty and its resume whole: the file
\* name and the bytes are both there
RowComplete(a) ==
    /\ a.full_name # "" /\ a.email # "" /\ a.phone # ""
    /\ a.institution # "" /\ a.course # ""
    /\ ~IsNone(a.cv_filename)
    /\ ~IsNone(a.cv_data)

\* C11: whatever requests were served, the debug routes among them, every
\* application row has non-empty full_name, email, phone, institution and
\* course and carries both cv_filename and cv_data; no row carries a
\* cv_filename without cv_data.
C11_RowsComplete ==
    \A i \in 1..Len(applications) :
      /\ RowComplete(applications[i])
      /\ ~(~IsNone(applications[i].cv_filename) /\ IsNone(applications[i].cv_data))
====
